---- MODULE Spec2Model ----
(***************************************************************************)
(* Model of the scraper-development pipeline driver, runPipeline, of       *)
(* src/src/pipeline/runner.ts together with the state helpers of           *)
(* pipeline/state.ts (src/unnamed/part_012).                               *)
(*                                                                         *)
(* The driver is one sequential async function.  pc is its position; every *)
(* action is the code between two suspension points that matter.  The      *)
(* collaborators are nondeterministic: an LLM invocation returns or throws *)
(* any error kind, fires its hooks, and edits the workspace through its    *)
(* tools; a filesystem write may throw; the observer callback may throw;   *)
(* the abort token may be set at any moment.                               *)
(***************************************************************************)
EXTENDS Integers, Sequences, FiniteSets, TLC

\* ---- bounds of the model ------------------------------------------------
MaxRepairBound == 1
MaxHookFirings == 1
MaxTokens == 3
MaxSuffixLen == 3
MaxMarkers == 2
MaxSamples == 2
MaxErrors == 2

\* ---- program constants --------------------------------------------------
maxExploreAttempts == 3
maxSynthAttempts == 3
InitialMaxRepairAttempts == 5
DefaultMaxRepairAttempts == 20
SlugMaxLen == 50
MinFindingsLen == 50

VARIABLES
    pc,                 \* position of runPipeline
    state,              \* the PipelineState record
    maxRepairAttempts,  \* options.maxRepairAttempts as destructured
    disk,               \* workDir/state.json
    files,              \* generated artifacts present in scraperDir
    events,             \* every event handed to the observer, in order
    aborted,            \* signal.aborted
    err,                \* the exception in flight to the outer catch
    attempt,            \* Explore loop counter
    synthAttempt,       \* Synthesize loop counter
    findingsLen,        \* findings.trim().length of the Explore result
    testReport,         \* the local testReport of the current TEST
    toolOpen,           \* a tool call of the running invocation is in progress
    hookFirings,        \* onToolStart and onStop firings so far (bounded)
    retLine,            \* source line of the return statement taken, 0 if none
    invoked,            \* the phases whose LLM invocation has been started
    testsReturned,      \* TEST invocations that have returned so far
    budgetRaised,       \* an invocation has raised budget_exceeded
    prompts,            \* prompts passed to prompt() by the running runStageWithRetry
    synthResult,        \* what the latest Synthesize invocation returned
    lastSynthError,     \* the local lastSynthError of the Synthesize loop
    written,            \* artifacts the prompts of the running runStageWithRetry wrote
    fn,                 \* the helper function under evaluation, "none" in a pipeline run
    arg,                \* its argument
    res                 \* its result, Pending until it has returned

vars == << pc, state, maxRepairAttempts, disk, files, events, aborted, err,
           attempt, synthAttempt, findingsLen, testReport, toolOpen,
           hookFirings, retLine, invoked, testsReturned, budgetRaised, prompts,
           synthResult, lastSynthError, written, fn, arg, res >>

\* the locals of the Synthesize loop besides its counter
synthLocals == << synthResult, lastSynthError >>

\* a helper function evaluated on its own
helperVars == << fn, arg, res >>

\* the result of a helper call: not returned yet, or returned with a value
Pending == [done |-> FALSE, value |-> ""]

Done(v) == [done |-> TRUE, value |-> v]

\* what the run has asked of the LLM primitive
llmLog == << invoked, testsReturned, budgetRaised, prompts >>

\* ---- types --------------------------------------------------------------
PipelineStage ==
    {"recon", "schema", "codegen", "test", "repair", "harden", "done", "failed"}

Files == {"schema.ts", "scraper.ts", "index.ts"}

Unset == "<undefined>"

\* the validated reports a TEST invocation is taken to return: a passing run
\* with records, a failing run with none
Reports == {[success |-> TRUE, recordCount |-> 7], [success |-> FALSE, recordCount |-> 0]}

\* the local `testReport` of the TEST block: undefined, or a report
NoReport == [has |-> FALSE, success |-> FALSE, recordCount |-> 0]

SomeReport(r) ==
    [has |-> TRUE, success |-> r.success, recordCount |-> r.recordCount]

\* error kinds an LLM invocation can raise
LlmErrors ==
    {"budget_exceeded", "output_parse_error", "transient", "generic", "generic_empty"}

\* what a throwing observer callback raises (any Error, also one without message)
ObserverErrors == {"observer_error", "observer_error_empty"}

\* what a failing filesystem write raises
FsErrors == {"generic"}

createInitialState ==
    [ currentStage      |-> "recon",
      testResults       |-> << >>,
      repairAttempts    |-> 0,
      maxRepairAttempts |-> InitialMaxRepairAttempts,
      error             |-> Unset,
      reconReport       |-> FALSE,
      schemaPath        |-> FALSE,
      completedAt       |-> FALSE ]

\* ---- state.json -----------------------------------------------------------
NoStateFile == [kind |-> "none", content |-> createInitialState]

GarbageStateFile == [kind |-> "garbage", content |-> createInitialState]

\* saveState: Bun.write(state.json, JSON.stringify(state))
saveState(s) == [kind |-> "json", content |-> s]

\* state.json holds exactly the serialization of s
Synced(s, d) == d.kind = "json" /\ d.content = s

\* ---- events ---------------------------------------------------------------
\* An emit of runPipeline itself.  n is the attempt or record count of the
\* events that carry one, max the maxAttempts of repair_attempt (runner.ts
\* 698: the destructured option).  cur and synced record state.currentStage
\* and whether state.json held the serialization of state when it was emitted.
Ev(type, stage, n, by, s, d) ==
    [ type |-> type, stage |-> stage, n |-> n, by |-> by,
      max |-> IF type = "repair_attempt" THEN maxRepairAttempts ELSE 0,
      cur |-> s.currentStage, synced |-> Synced(s, d) ]

\* An emit of a hook, made while an invocation runs.
HookEv(type, stage) ==
    [ type |-> type, stage |-> stage, n |-> 0, by |-> "hook", max |-> 0,
      cur |-> "-", synced |-> FALSE ]

RECURSIVE CountType(_, _)
CountType(evs, t) ==
    IF evs = << >> THEN 0
    ELSE (IF Head(evs).type = t THEN 1 ELSE 0) + CountType(Tail(evs), t)

\* ---- the exception path ---------------------------------------------------
\* throw e inside the try block of runPipeline
Throw(e) == pc' = "catch" /\ err' = e

\* consecutive emit calls with nothing else between them: either all return
\* and control reaches next, or the observer throws in the k-th
EmitAll(evs, next) ==
    \/ /\ events' = events \o evs
       /\ pc' = next
       /\ UNCHANGED err
    \/ \E k \in 1..Len(evs), e \in ObserverErrors :
        /\ events' = events \o SubSeq(evs, 1, k)
        /\ Throw(e)

\* return state, at the given source line
Return(line) == pc' = "returned" /\ retLine' = line

Init ==
    /\ pc = "start"
    /\ state = createInitialState
    /\ maxRepairAttempts \in 0..MaxRepairBound
    /\ disk = NoStateFile
    /\ files \in {{}, Files}
    /\ events = << >>
    /\ aborted = FALSE
    /\ err = "none"
    /\ attempt = 1
    /\ synthAttempt = 1
    /\ findingsLen = 0
    /\ testReport = NoReport
    /\ toolOpen = FALSE
    /\ hookFirings = 0
    /\ retLine = 0
    /\ invoked = {}
    /\ testsReturned = 0
    /\ budgetRaised = FALSE
    /\ prompts = << >>
    /\ synthResult = "none"
    /\ lastSynthError = ""
    /\ written = {}
    /\ fn = "none"
    /\ arg = << >>
    /\ res = Pending

\* runner.ts 349-359: workspace creation, createInitialState, option copy.
\* The two Bun.write calls are outside the try block.
Setup ==
    /\ pc = "start"
    /\ \/ /\ pc' = "recon_start"
          /\ state' = [state EXCEPT !.maxRepairAttempts = maxRepairAttempts]
          /\ UNCHANGED err
       \/ /\ pc' = "thrown"
          /\ err' \in FsErrors
          /\ UNCHANGED state
    /\ UNCHANGED << maxRepairAttempts, helperVars, written, synthLocals, llmLog, disk, files, events, aborted, attempt,
                    synthAttempt, findingsLen, testReport, toolOpen, hookFirings,
                    retLine >>

\* ---- variable groups ------------------------------------------------------
locals == << attempt, synthAttempt, findingsLen, testReport >>

hookVars == << toolOpen, hookFirings >>

\* state mutation followed by `await saveState(state)` inside the try block
SaveThenFrom(s, next, d) ==
    /\ state' = s
    /\ \/ /\ disk' = saveState(s)
          /\ pc' = next
          /\ UNCHANGED err
       \/ /\ disk' = d
          /\ \E e \in FsErrors : Throw(e)

SaveThen(s, next) == SaveThenFrom(s, next, disk)

\* ---- LLM invocations in flight ---------------------------------------------
InFlight ==
    {"explore_call", "synth_call", "schema_call1", "schema_call2",
     "codegen_call1", "codegen_call2", "test_call", "repair_call", "harden_call"}

\* the stage each invocation's hooks were built for (Synthesize has no hooks)
HookStage(p) ==
    CASE p = "explore_call" -> "recon"
      [] p \in {"schema_call1", "schema_call2"} -> "schema"
      [] p \in {"codegen_call1", "codegen_call2"} -> "codegen"
      [] p = "test_call" -> "test"
      [] p = "repair_call" -> "repair"
      [] p = "harden_call" -> "harden"
      [] OTHER -> "none"

\* runner.ts 378-381: the tool sets
reconTools == {"web_probe", "web_intercept_api", "read_file"}

codeTools == {"bash", "read_file", "write_file", "edit_file", "glob_files", "grep"}

testTools == {"bash", "read_file", "scraper_test", "scraper_lint", "glob_files"}

repairTools == {"bash", "read_file", "write_file", "edit_file", "web_probe", "glob_files"}

\* the `tools` of the configuration each invocation is made with
tools(p) ==
    CASE p = "explore_call" -> reconTools
      [] p \in {"schema_call1", "schema_call2", "codegen_call1", "codegen_call2",
                "harden_call"} -> codeTools
      [] p = "test_call" -> testTools
      [] p = "repair_call" -> repairTools
      [] OTHER -> {}

\* runner.ts 362: makeBashGuardrail(workDir), made once per run
bashGuardrail == [name |-> "bash_safety", workDir |-> "workDir"]

\* the retry prompt of runStageWithRetry configured without the guardrail
toolInputGuardrails_m(p) ==
    IF p \in {"schema_call1", "codegen_call1", "test_call", "repair_call", "harden_call"}
    THEN {bashGuardrail} ELSE {}

\* the `toolInputGuardrails` of the configuration each invocation is made with
\* (runner.ts 569, 610, 651, 711, 741; runStageWithRetry passes one config to
\* both of its prompts)
toolInputGuardrails(p) ==
    IF p \in {"schema_call1", "schema_call2", "codegen_call1", "codegen_call2",
              "test_call", "repair_call", "harden_call"}
    THEN {bashGuardrail} ELSE {}

\* invocations whose tool set holds bash, write_file or edit_file
HasWriteTools(p) == tools(p) \cap {"bash", "write_file", "edit_file"} # {}

\* the phase an invocation belongs to: the two RECON phases, else its stage
Phase(p) ==
    CASE p = "explore_call" -> "explore"
      [] p = "synth_call" -> "synthesize"
      [] OTHER -> HookStage(p)

\* control reaching an invocation enters the LLM primitive for its phase
Invoke == invoked' = IF pc' \in InFlight THEN invoked \cup {Phase(pc')} ELSE invoked

\* an invocation throws e to the enclosing try block of runPipeline
Raise(e) == Throw(e) /\ budgetRaised' = (budgetRaised \/ e = "budget_exceeded")

\* makePipelineRunHooks.onToolStart
HookToolStart ==
    /\ pc \in InFlight /\ HookStage(pc) # "none"
    /\ ~toolOpen /\ hookFirings < MaxHookFirings
    /\ events' = Append(events, HookEv("stage_tool_start", HookStage(pc)))
    /\ toolOpen' = TRUE
    /\ hookFirings' = hookFirings + 1
    /\ UNCHANGED << pc, state, maxRepairAttempts, helperVars, written, synthLocals, llmLog, disk, files, aborted, err, locals, retLine >>

\* makePipelineRunHooks.onToolEnd
HookToolEnd ==
    /\ pc \in InFlight /\ toolOpen
    /\ events' = Append(events, HookEv("stage_tool_end", HookStage(pc)))
    /\ toolOpen' = FALSE
    /\ UNCHANGED << pc, state, maxRepairAttempts, helperVars, written, synthLocals, llmLog, disk, files, aborted, err, locals, hookFirings, retLine >>

\* makeOnStopHook.onStop
HookStop ==
    /\ pc \in InFlight /\ HookStage(pc) # "none"
    /\ ~toolOpen /\ hookFirings < MaxHookFirings
    /\ events' = Append(events, HookEv("stage_error", HookStage(pc)))
    /\ hookFirings' = hookFirings + 1
    /\ UNCHANGED << pc, state, maxRepairAttempts, helperVars, written, synthLocals, llmLog, disk, files, aborted, err, locals, toolOpen, retLine >>

\* The artifacts an invocation is prompted to write or edit: SCHEMA writes
\* schema.ts, CODEGEN writes scraper.ts and index.ts, REPAIR and HARDEN edit
\* the scraper sources; TEST only runs the scraper.
touchable(p) ==
    CASE p \in {"schema_call1", "schema_call2"} -> {"schema.ts"}
      [] p \in {"codegen_call1", "codegen_call2", "repair_call", "harden_call"} ->
            {"scraper.ts", "index.ts"}
      [] OTHER -> {}

\* What the tools of a finished invocation did to the workspace: bash,
\* write_file and edit_file can create or delete each of those artifacts ...
toolFiles(p) == {fs \in SUBSET Files : \A f \in Files \ touchable(p) : f \in fs <=> f \in files}

\* The artifacts among them that the invocation itself wrote and left in
\* place: every artifact that was not there before, and any that was.
toolWrites(p, fs) ==
    {w \in SUBSET (touchable(p) \cap fs) : (fs \ files) \cap touchable(p) \subseteq w}

\* ... and can overwrite workDir/state.json (a path the guardrail allows)
toolDisk(p) == IF HasWriteTools(p) THEN {disk, GarbageStateFile} ELSE {disk}

\* The caller aborts the signal (the catch block never reads it).  That takes
\* a suspension point or an observer callback: none lies between the abort
\* checks at 550 and 590 and the stage_start emitted right after them.
Abort ==
    /\ pc \notin {"returned", "thrown", "catch", "catch_save", "schema_start", "codegen_start"}
    /\ ~aborted
    /\ aborted' = TRUE
    /\ UNCHANGED << pc, state, maxRepairAttempts, helperVars, written, synthLocals, llmLog, disk, files, events, err, locals, hookVars, retLine >>

\* ---- Stage 1: RECON ---------------------------------------------------------
\* runner.ts 385-386
ReconStart ==
    /\ pc = "recon_start"
    /\ \/ EmitAll(<< Ev("stage_start", "recon", 0, "driver", state, disk) >>, "explore_call")
       \/ /\ events' = Append(events, Ev("stage_start", "recon", 0, "driver", state, disk))
          /\ \E e \in FsErrors : Throw(e)          \* debugLog failed
    /\ Invoke
    /\ UNCHANGED << state, maxRepairAttempts, helperVars, written, synthLocals, disk, files, aborted, locals, hookVars, retLine,
                    testsReturned, budgetRaised, prompts >>

\* any non-empty findings accepted
usefulFindings_m(len) == len > 0

\* runner.ts 448: the negation of `findingsLen < 50`
usefulFindings(len) == len >= MinFindingsLen

\* runner.ts 395-407, 426-459: the Explore invocation returns a result
ExploreReturns ==
    /\ pc = "explore_call" /\ ~toolOpen
    /\ \E len \in {0, MinFindingsLen - 1, MinFindingsLen} :
        /\ findingsLen' = len
        /\ \/ /\ pc' = IF usefulFindings(len) THEN "synth_call" ELSE "recon_nofindings"
              /\ UNCHANGED err
           \/ \E e \in FsErrors : Throw(e)          \* debugLog / findings.txt write failed
    /\ Invoke
    /\ UNCHANGED << state, maxRepairAttempts, helperVars, written, synthLocals, disk, files, events, aborted,
                    attempt, synthAttempt, testReport, hookVars, retLine,
                    testsReturned, budgetRaised, prompts >>

\* ---- isTransientApiError -----------------------------------------------------
\* An error value as the classifier sees it: its class, its model-layer
\* status (0 when it has none) and the markers its message contains.
Markers ==
    {"rate limit", "Too Many Requests", "Response failed", "network error",
     "timed out", "ETIMEDOUT", "ECONNRESET"}

\* runner.ts 233-245; ModelError is a subclass of Error
isTransientApiError(e) ==
    \/ /\ e.class = "ModelError"
       /\ \/ e.status = 429
          \/ e.marks \cap {"rate limit", "Too Many Requests", "Response failed",
                           "network error"} # {}
    \/ /\ e.class \in {"ModelError", "Error"}
       /\ e.marks \cap {"rate limit", "Too Many Requests", "timed out", "ETIMEDOUT",
                        "ECONNRESET"} # {}

\* the error value behind each error kind an invocation raises
errorValue(kind) ==
    CASE kind = "transient" -> [class |-> "ModelError", status |-> 429, marks |-> {}]
      [] kind = "budget_exceeded" ->
            [class |-> "MaxBudgetExceededError", status |-> 0, marks |-> {}]
      [] kind = "output_parse_error" ->
            [class |-> "OutputParseError", status |-> 0, marks |-> {}]
      [] OTHER -> [class |-> "Error", status |-> 0, marks |-> {}]

\* a fourth Explore attempt allowed
retryExplore_m(e, a) == isTransientApiError(errorValue(e)) /\ a <= maxExploreAttempts

\* runner.ts 410: the error is retried
retryExplore(e, a) == isTransientApiError(errorValue(e)) /\ a < maxExploreAttempts

\* runner.ts 408-415: the Explore invocation throws; the inner catch binds err
ExploreThrows ==
    /\ pc = "explore_call" /\ ~toolOpen
    /\ \E e \in LlmErrors :
        /\ budgetRaised' = (budgetRaised \/ e = "budget_exceeded")
        /\ IF retryExplore(e, attempt)
           THEN \/ pc' = "explore_backoff" /\ err' = e
                \/ \E f \in FsErrors : Throw(f)   \* debugLog failed
           ELSE pc' = "explore_failed" /\ err' = e
    /\ UNCHANGED << state, maxRepairAttempts, helperVars, written, synthLocals, disk, files, events, aborted, locals, hookVars, retLine,
                    invoked, testsReturned, prompts >>

\* runner.ts 413-414: the backoff timer fires inside the catch block, whose
\* err goes out of scope with `continue`; next loop iteration
ExploreBackoff ==
    /\ pc = "explore_backoff"
    /\ attempt' = attempt + 1
    /\ pc' = "explore_call"
    /\ err' = "none"
    /\ UNCHANGED << state, maxRepairAttempts, helperVars, written, synthLocals, llmLog, disk, files,
                    events, aborted, synthAttempt, findingsLen, testReport, hookVars, retLine >>

\* runner.ts 409: err.message, a text the LLM layer composed
message(e) == "<message of " \o e \o ">"

\* runner.ts 416-418
ExploreFailed ==
    /\ pc = "explore_failed"
    /\ SaveThen([state EXCEPT !.currentStage = "failed",
                              !.error = "recon explore phase threw: " \o message(err)],
                "explore_failed_emit")
    /\ UNCHANGED << maxRepairAttempts, helperVars, written, synthLocals, llmLog, files, events, aborted, locals, hookVars, retLine >>

\* runner.ts 419-421
ExploreFailedEmit ==
    /\ pc = "explore_failed_emit"
    /\ \/ /\ EmitAll(<< Ev("pipeline_failed", "recon", 0, "driver", state, disk) >>, "returned")
          /\ retLine' = IF pc' = "returned" THEN 421 ELSE retLine
       \/ /\ \E e \in FsErrors : Throw(e)          \* debugLog failed
          /\ UNCHANGED << events, retLine >>
    /\ UNCHANGED << state, maxRepairAttempts, helperVars, written, synthLocals, llmLog, disk, files, aborted, locals, hookVars >>

\* runner.ts 448-451
NoFindings ==
    /\ pc = "recon_nofindings"
    /\ SaveThen([state EXCEPT !.currentStage = "failed",
                              !.error = "recon explore produced no useful findings"],
                "recon_nofindings_emit")
    /\ UNCHANGED << maxRepairAttempts, helperVars, written, synthLocals, llmLog, files, events, aborted, locals, hookVars, retLine >>

\* runner.ts 452-453
NoFindingsEmit ==
    /\ pc = "recon_nofindings_emit"
    /\ EmitAll(<< Ev("pipeline_failed", "recon", 0, "driver", state, disk) >>, "returned")
    /\ retLine' = IF pc' = "returned" THEN 453 ELSE retLine
    /\ UNCHANGED << state, maxRepairAttempts, helperVars, written, synthLocals, llmLog, disk, files, aborted, locals, hookVars >>

\* what a Synthesize invocation that returns can hold
SynthResults == {"finalOutput", "fallback_valid", "fallback_invalid", "not_json", "empty"}

\* runner.ts 526: another attempt follows, after the backoff
SynthNext == IF synthAttempt < maxSynthAttempts THEN "synth_backoff" ELSE "synth_failed"

\* the fallback taken without validating the parsed output
synthSucceeds_m(r) == r \in {"finalOutput", "fallback_valid", "fallback_invalid"}

\* runner.ts 488, 496-499: a validated finalOutput, or a raw output that parses
\* as JSON and passes ReconReportOutputSchema.safeParse
synthSucceeds(r) == r \in {"finalOutput", "fallback_valid"}

\* runner.ts 506-511: lastSynthError of an attempt that returned without success
synthFailure(r) ==
    CASE r = "fallback_invalid" -> "Zod validation"
      [] r = "not_json" -> "not valid JSON"
      [] OTHER -> "Empty output"

\* runner.ts 469-513, 526
SynthReturns ==
    /\ pc = "synth_call"
    /\ \E r \in SynthResults :
        /\ synthResult' = r
        /\ \/ /\ synthSucceeds(r)
              /\ state' = [state EXCEPT !.reconReport = TRUE]
              /\ pc' = "recon_complete"
              /\ UNCHANGED << err, lastSynthError >>
           \/ /\ ~synthSucceeds(r)
              /\ lastSynthError' = synthFailure(r)
              /\ pc' = SynthNext
              /\ UNCHANGED << state, err >>
           \/ /\ r = "fallback_valid"            \* 502-503 failed inside the inner try,
              /\ lastSynthError' = "not valid JSON"  \* whose catch takes any error for a JSON error
              /\ pc' = SynthNext
              /\ UNCHANGED << state, err >>
           \/ /\ \E e \in FsErrors : Throw(e)     \* debugLog / Bun.write failed
              /\ UNCHANGED << state, lastSynthError >>
    /\ UNCHANGED << maxRepairAttempts, helperVars, written, llmLog, disk, files, events, aborted, locals,
                    hookVars, retLine >>

\* every error of Synthesize retried
retrySynth_m(e) == TRUE

\* runner.ts 516, 518: lastSynthError of an attempt that threw and is retried
synthErrorText(e) ==
    IF e = "output_parse_error" THEN "OutputParseError: " \o message(e)
    ELSE "Rate limited: " \o message(e)

\* runner.ts 515-521: the errors after which the loop goes on
retrySynth(e) == e = "output_parse_error" \/ isTransientApiError(errorValue(e))

\* runner.ts 514-523, 526
SynthThrows ==
    /\ pc = "synth_call"
    /\ \E e \in LlmErrors :
        IF retrySynth(e)
        THEN /\ lastSynthError' = synthErrorText(e)
             /\ \/ pc' = SynthNext /\ UNCHANGED err
                \/ \E f \in FsErrors : Throw(f)   \* debugLog failed
             /\ UNCHANGED budgetRaised
        ELSE Raise(e) /\ UNCHANGED lastSynthError  \* rethrown to the outer catch
    /\ synthResult' = "none"
    /\ UNCHANGED << state, maxRepairAttempts, helperVars, written, disk, files, events, aborted, locals,
                    hookVars, retLine, invoked, testsReturned, prompts >>

\* runner.ts 527-529, 463
SynthBackoff ==
    /\ pc = "synth_backoff"
    /\ \/ /\ synthAttempt' = synthAttempt + 1
          /\ pc' = "synth_call"
          /\ UNCHANGED err
       \/ /\ \E f \in FsErrors : Throw(f)          \* debugLog failed
          /\ UNCHANGED synthAttempt
    /\ UNCHANGED << state, maxRepairAttempts, helperVars, written, synthLocals, llmLog, disk, files, events, aborted,
                    attempt, findingsLen, testReport, hookVars, retLine >>

\* runner.ts 533-536
SynthFailed ==
    /\ pc = "synth_failed"
    /\ SaveThen([state EXCEPT !.currentStage = "failed",
                              !.error = "recon synthesize failed after 3 attempts"],
                "synth_failed_emit")
    /\ UNCHANGED << maxRepairAttempts, helperVars, written, synthLocals, llmLog, files, events, aborted, locals, hookVars, retLine >>

\* runner.ts 537-538
SynthFailedEmit ==
    /\ pc = "synth_failed_emit"
    /\ EmitAll(<< Ev("pipeline_failed", "recon", 0, "driver", state, disk) >>, "returned")
    /\ retLine' = IF pc' = "returned" THEN 538 ELSE retLine
    /\ UNCHANGED << state, maxRepairAttempts, helperVars, written, synthLocals, llmLog, disk, files, aborted, locals, hookVars >>

\* runner.ts 541-542; the Synthesize counter and the findings go out of use here
ReconComplete ==
    /\ pc = "recon_complete"
    /\ SaveThen([state EXCEPT !.currentStage = "schema"], "recon_complete_emit")
    /\ synthAttempt' = 1 /\ findingsLen' = 0
    /\ synthResult' = "none" /\ lastSynthError' = ""
    /\ UNCHANGED << maxRepairAttempts, helperVars, written, llmLog, files, events, aborted, attempt,
                    testReport, hookVars, retLine >>

\* after a stage_complete: `if (signal?.aborted) return state;`
AbortCheck(line, next) == IF aborted THEN Return(line) ELSE pc' = next /\ UNCHANGED retLine

\* runner.ts 543-550
ReconCompleteEmit ==
    /\ pc = "recon_complete_emit"
    /\ events' = Append(events, Ev("stage_complete", "recon", 0, "driver", state, disk))
    /\ \/ AbortCheck(550, "schema_start") /\ UNCHANGED err
       \/ (\E e \in ObserverErrors : Throw(e)) /\ UNCHANGED retLine
    /\ UNCHANGED << state, maxRepairAttempts, helperVars, written, synthLocals, llmLog, disk, files, aborted, locals, hookVars >>

\* only the first path of the list looked at
checkFiles_m(paths, present) == IF paths[1] \in present THEN "" ELSE paths[1]

\* checkFiles: the first missing path of the list, "" if all exist
checkFiles(paths, present) ==
    IF \A i \in 1..Len(paths) : paths[i] \in present THEN ""
    ELSE paths[CHOOSE i \in 1..Len(paths) :
                   /\ paths[i] \notin present
                   /\ \A j \in 1..(i - 1) : paths[j] \in present]

SchemaFiles == << "schema.ts" >>

CodegenFiles == << "scraper.ts", "index.ts" >>

\* ---- runStageWithRetry ------------------------------------------------------
\* buildSchemaPrompt / buildCodegenPrompt: the task prompt of a stage
taskPrompt(stage) == [task |-> stage, missing |-> "", hint |-> ""]

\* runner.ts 573, 614: the retryHint the caller passes
retryHint(stage) == "write_file " \o stage \o " artifacts"

\* the retry context without the caller's hint
retryPrompt_m(task, missing, hint) == [task |-> task.task, missing |-> missing, hint |-> ""]

\* runner.ts 127: the task prompt followed by the retry context, which names
\* the missing path and carries the hint
retryPrompt(task, missing, hint) == [task |-> task.task, missing |-> missing, hint |-> hint]

\* runner.ts 121-128: what runStageWithRetry does once its first prompt returned
\* with the artifacts in fs: return to the caller, or prompt a second time
AfterFirstPrompt(stage, expected, fs, call2, verify) ==
    IF checkFiles(expected, fs) = ""
    THEN pc' = verify /\ UNCHANGED prompts
    ELSE /\ pc' = call2
         /\ prompts' = Append(prompts,
                retryPrompt(prompts[1], checkFiles(expected, fs), retryHint(stage)))

\* ---- Stage 2: SCHEMA --------------------------------------------------------
\* runner.ts 553, 557, 121
SchemaStart ==
    /\ pc = "schema_start"
    /\ EmitAll(<< Ev("stage_start", "schema", 0, "driver", state, disk) >>, "schema_call1")
    /\ Invoke
    /\ prompts' = IF pc' = "schema_call1" THEN << taskPrompt("schema") >> ELSE prompts
    /\ UNCHANGED << state, maxRepairAttempts, helperVars, written, synthLocals, disk, files, aborted, locals, hookVars, retLine,
                    testsReturned, budgetRaised >>

\* runStageWithRetry (runner.ts 121-128) called at 557: first prompt returns
SchemaCall1Returns ==
    /\ pc = "schema_call1" /\ ~toolOpen
    /\ files' \in toolFiles(pc)
    /\ written' \in {written \cup w : w \in toolWrites(pc, files')}
    /\ disk' \in toolDisk(pc)
    /\ AfterFirstPrompt("schema", SchemaFiles, files', "schema_call2", "schema_verify")
    /\ UNCHANGED << state, maxRepairAttempts, helperVars, synthLocals, events, aborted, err, locals, hookVars, retLine,
                    invoked, testsReturned, budgetRaised >>

\* runStageWithRetry (runner.ts 128): retry prompt returns
SchemaCall2Returns ==
    /\ pc = "schema_call2" /\ ~toolOpen
    /\ files' \in toolFiles(pc)
    /\ written' \in {written \cup w : w \in toolWrites(pc, files')}
    /\ disk' \in toolDisk(pc)
    /\ pc' = "schema_verify"
    /\ UNCHANGED << state, maxRepairAttempts, helperVars, synthLocals, llmLog, events, aborted, err, locals, hookVars, retLine >>

\* runner.ts 557: either prompt of runStageWithRetry throws
SchemaThrows ==
    /\ pc \in {"schema_call1", "schema_call2"} /\ ~toolOpen
    /\ files' \in toolFiles(pc)
    /\ disk' \in toolDisk(pc)
    /\ \E e \in LlmErrors : Raise(e)
    /\ prompts' = << >>
    /\ written' = {}                              \* the wrapper's prompts are over
    /\ UNCHANGED << state, maxRepairAttempts, helperVars, synthLocals, events, aborted, locals, hookVars, retLine,
                    invoked, testsReturned >>

\* runner.ts 576-580, 585-587
SchemaVerify ==
    /\ pc = "schema_verify"
    /\ IF checkFiles(SchemaFiles, files) # ""
       THEN SaveThen([state EXCEPT !.currentStage = "failed",
                                   !.error = "schema stage did not produce schema.ts"],
                     "schema_missing_emit")
       ELSE SaveThen([state EXCEPT !.schemaPath = TRUE, !.currentStage = "codegen"],
                     "schema_complete_emit")
    /\ prompts' = << >>                            \* runStageWithRetry has returned
    /\ UNCHANGED << maxRepairAttempts, helperVars, written, synthLocals, files, events, aborted, locals, hookVars, retLine,
                    invoked, testsReturned, budgetRaised >>

\* runner.ts 581-582
SchemaMissingEmit ==
    /\ pc = "schema_missing_emit"
    /\ EmitAll(<< Ev("pipeline_failed", "schema", 0, "driver", state, disk) >>, "returned")
    /\ retLine' = IF pc' = "returned" THEN 582 ELSE retLine
    /\ written' = {}                              \* the wrapper's prompts are over
    /\ UNCHANGED << state, maxRepairAttempts, helperVars, synthLocals, llmLog, disk, files, aborted, locals, hookVars >>

\* runner.ts 588-590
SchemaCompleteEmit ==
    /\ pc = "schema_complete_emit"
    /\ events' = Append(events, Ev("stage_complete", "schema", 0, "driver", state, disk))
    /\ \/ AbortCheck(590, "codegen_start") /\ UNCHANGED err
       \/ (\E e \in ObserverErrors : Throw(e)) /\ UNCHANGED retLine
    /\ written' = {}                              \* the wrapper's prompts are over
    /\ UNCHANGED << state, maxRepairAttempts, helperVars, synthLocals, llmLog, disk, files, aborted, locals, hookVars >>

\* ---- Stage 3: CODEGEN -------------------------------------------------------
\* runner.ts 593, 598, 121
CodegenStart ==
    /\ pc = "codegen_start"
    /\ EmitAll(<< Ev("stage_start", "codegen", 0, "driver", state, disk) >>, "codegen_call1")
    /\ Invoke
    /\ prompts' = IF pc' = "codegen_call1" THEN << taskPrompt("codegen") >> ELSE prompts
    /\ UNCHANGED << state, maxRepairAttempts, helperVars, written, synthLocals, disk, files, aborted, locals, hookVars, retLine,
                    testsReturned, budgetRaised >>

\* runStageWithRetry (runner.ts 121-128) called at 598: first prompt returns
CodegenCall1Returns ==
    /\ pc = "codegen_call1" /\ ~toolOpen
    /\ files' \in toolFiles(pc)
    /\ written' \in {written \cup w : w \in toolWrites(pc, files')}
    /\ disk' \in toolDisk(pc)
    /\ AfterFirstPrompt("codegen", CodegenFiles, files', "codegen_call2", "codegen_verify")
    /\ UNCHANGED << state, maxRepairAttempts, helperVars, synthLocals, events, aborted, err, locals, hookVars, retLine,
                    invoked, testsReturned, budgetRaised >>

\* runStageWithRetry (runner.ts 128): retry prompt returns
CodegenCall2Returns ==
    /\ pc = "codegen_call2" /\ ~toolOpen
    /\ files' \in toolFiles(pc)
    /\ written' \in {written \cup w : w \in toolWrites(pc, files')}
    /\ disk' \in toolDisk(pc)
    /\ pc' = "codegen_verify"
    /\ UNCHANGED << state, maxRepairAttempts, helperVars, synthLocals, llmLog, events, aborted, err, locals, hookVars, retLine >>

\* runner.ts 598: either prompt of runStageWithRetry throws
CodegenThrows ==
    /\ pc \in {"codegen_call1", "codegen_call2"} /\ ~toolOpen
    /\ files' \in toolFiles(pc)
    /\ disk' \in toolDisk(pc)
    /\ \E e \in LlmErrors : Raise(e)
    /\ prompts' = << >>
    /\ written' = {}                              \* the wrapper's prompts are over
    /\ UNCHANGED << state, maxRepairAttempts, helperVars, synthLocals, events, aborted, locals, hookVars, retLine,
                    invoked, testsReturned >>

\* runner.ts 617-621, 626-627
CodegenVerify ==
    /\ pc = "codegen_verify"
    /\ IF checkFiles(CodegenFiles, files) # ""
       THEN SaveThen([state EXCEPT !.currentStage = "failed",
                                   !.error = "codegen stage did not produce "
                                               \o checkFiles(CodegenFiles, files)],
                     "codegen_missing_emit")
       ELSE SaveThen([state EXCEPT !.currentStage = "test"], "codegen_complete_emit")
    /\ prompts' = << >>                            \* runStageWithRetry has returned
    /\ UNCHANGED << maxRepairAttempts, helperVars, written, synthLocals, files, events, aborted, locals, hookVars, retLine,
                    invoked, testsReturned, budgetRaised >>

\* runner.ts 622-623
CodegenMissingEmit ==
    /\ pc = "codegen_missing_emit"
    /\ EmitAll(<< Ev("pipeline_failed", "codegen", 0, "driver", state, disk) >>, "returned")
    /\ retLine' = IF pc' = "returned" THEN 623 ELSE retLine
    /\ written' = {}                              \* the wrapper's prompts are over
    /\ UNCHANGED << state, maxRepairAttempts, helperVars, synthLocals, llmLog, disk, files, aborted, locals, hookVars >>

\* runner.ts 628-630
CodegenCompleteEmit ==
    /\ pc = "codegen_complete_emit"
    /\ events' = Append(events, Ev("stage_complete", "codegen", 0, "driver", state, disk))
    /\ \/ AbortCheck(630, "loop_head") /\ UNCHANGED err
       \/ (\E e \in ObserverErrors : Throw(e)) /\ UNCHANGED retLine
    /\ written' = {}                              \* the wrapper's prompts are over
    /\ UNCHANGED << state, maxRepairAttempts, helperVars, synthLocals, llmLog, disk, files, aborted, locals, hookVars >>

\* ---- Stage 4-5: TEST / REPAIR loop -------------------------------------------
\* the loop left one iteration early
loopCond_m(s, max) == s.repairAttempts < max

\* runner.ts 634: the while condition
loopCond(s, max) == s.repairAttempts <= max

\* a run without a report counted as passed
passed_m(r) == ~r.has \/ r.success

\* runner.ts 668: testReport?.success ?? false
passed(r) == r.has /\ r.success

\* the cap compared with > instead of >=
repairsExceeded_m(s, max) == s.repairAttempts > max

\* runner.ts 688: max repairs exceeded
repairsExceeded(s, max) == s.repairAttempts >= max

\* runner.ts 634-638
LoopHead ==
    /\ pc = "loop_head"
    /\ IF loopCond(state, maxRepairAttempts)
       THEN IF aborted
            THEN Return(635) /\ UNCHANGED << events, err >>
            ELSE /\ EmitAll(<< Ev("stage_start", "test", 0, "driver", state, disk) >>, "test_call")
                 /\ UNCHANGED retLine
       ELSE pc' = "after_loop" /\ UNCHANGED << events, err, retLine >>
    /\ testReport' = NoReport                       \* 655: declared per iteration
    /\ Invoke
    /\ UNCHANGED << state, maxRepairAttempts, helperVars, written, synthLocals, disk, files, aborted,
                    attempt, synthAttempt, findingsLen, hookVars,
                    testsReturned, budgetRaised, prompts >>

\* runner.ts 640-666: the TEST invocation returns, with or without a
\* validated report; the report is written, pushed and announced
TestReturns ==
    /\ pc = "test_call" /\ ~toolOpen
    /\ files' \in toolFiles(pc)
    /\ disk' \in toolDisk(pc)
    /\ \/ /\ testReport' = NoReport
          /\ pc' = "test_complete_emit"
          /\ UNCHANGED << state, events, err >>
       \/ \E r \in Reports :
            /\ testReport' = SomeReport(r)
            /\ \/ /\ \E e \in FsErrors : Throw(e)  \* test-report.json write failed
                  /\ UNCHANGED << state, events >>
               \/ /\ state' = [state EXCEPT !.testResults = Append(@, r)]
                  /\ EmitAll(<< Ev("test_result", "test", state.repairAttempts + 1,
                                   "driver", state', disk') >>,
                             "test_complete_emit")
    /\ testsReturned' = testsReturned + 1
    /\ UNCHANGED << maxRepairAttempts, helperVars, written, synthLocals, aborted,
                    attempt, synthAttempt, findingsLen, hookVars, retLine,
                    invoked, budgetRaised, prompts >>

\* runner.ts 640: the TEST invocation throws
TestThrows ==
    /\ pc = "test_call" /\ ~toolOpen
    /\ files' \in toolFiles(pc)
    /\ disk' \in toolDisk(pc)
    /\ \E e \in LlmErrors : Raise(e)
    /\ UNCHANGED << state, maxRepairAttempts, helperVars, written, synthLocals, events, aborted, locals, hookVars, retLine,
                    invoked, testsReturned, prompts >>

\* runner.ts 668-688: stage_complete{test}, then the three-way branch
TestCompleteEmit ==
    /\ pc = "test_complete_emit"
    /\ EmitAll(<< Ev("stage_complete", "test", 0, "driver", state, disk) >>,
               IF passed(testReport) THEN "test_passed"
               ELSE IF repairsExceeded(state, maxRepairAttempts) THEN "repair_exhausted"
               ELSE "repair_start")
    /\ UNCHANGED << state, maxRepairAttempts, helperVars, written, synthLocals, llmLog, disk, files, aborted, locals, hookVars, retLine >>

\* the transition to harden made in memory only, saveState left out
TestPassed_m ==
    /\ pc = "test_passed"
    /\ state' = [state EXCEPT !.currentStage = "harden"]
    /\ pc' = "after_loop"
    /\ UNCHANGED << maxRepairAttempts, helperVars, written, synthLocals, llmLog, disk, files, events, aborted, err, locals, hookVars, retLine >>

\* runner.ts 681-684
TestPassed ==
    /\ pc = "test_passed"
    /\ SaveThen([state EXCEPT !.currentStage = "harden"], "after_loop")
    /\ UNCHANGED << maxRepairAttempts, helperVars, written, synthLocals, llmLog, files, events, aborted, locals, hookVars, retLine >>

\* runner.ts 688-691
RepairExhausted ==
    /\ pc = "repair_exhausted"
    /\ SaveThen([state EXCEPT !.currentStage = "failed",
                              !.error = "max repair attempts exceeded"],
                "repair_exhausted_emit")
    /\ UNCHANGED << maxRepairAttempts, helperVars, written, synthLocals, llmLog, files, events, aborted, locals, hookVars, retLine >>

\* runner.ts 692-693
RepairExhaustedEmit ==
    /\ pc = "repair_exhausted_emit"
    /\ EmitAll(<< Ev("pipeline_failed", "repair", 0, "driver", state, disk) >>, "returned")
    /\ retLine' = IF pc' = "returned" THEN 693 ELSE retLine
    /\ UNCHANGED << state, maxRepairAttempts, helperVars, written, synthLocals, llmLog, disk, files, aborted, locals, hookVars >>

\* stage_start{repair} emitted ahead of repair_attempt
repairEvents_m(s, d) ==
    << Ev("stage_start", "repair", 0, "driver", s, d),
       Ev("repair_attempt", "repair", s.repairAttempts, "driver", s, d) >>

\* runner.ts 698-699: the two events that open a repair
repairEvents(s, d) ==
    << Ev("repair_attempt", "repair", s.repairAttempts, "driver", s, d),
       Ev("stage_start", "repair", 0, "driver", s, d) >>

\* runner.ts 697-699
RepairStart ==
    /\ pc = "repair_start"
    /\ state' = [state EXCEPT !.repairAttempts = @ + 1]
    /\ EmitAll(repairEvents(state', disk), "repair_call")
    /\ Invoke
    /\ UNCHANGED << maxRepairAttempts, helperVars, written, synthLocals, disk, files, aborted, locals, hookVars, retLine,
                    testsReturned, budgetRaised, prompts >>

\* runner.ts 701-716: the REPAIR invocation returns
RepairReturns ==
    /\ pc = "repair_call" /\ ~toolOpen
    /\ files' \in toolFiles(pc)
    /\ \E d \in toolDisk(pc) :
         SaveThenFrom([state EXCEPT !.currentStage = "test"], "repair_complete_emit", d)
    /\ UNCHANGED << maxRepairAttempts, helperVars, written, synthLocals, llmLog, events, aborted, locals, hookVars, retLine >>

\* runner.ts 701: the REPAIR invocation throws
RepairThrows ==
    /\ pc = "repair_call" /\ ~toolOpen
    /\ files' \in toolFiles(pc)
    /\ disk' \in toolDisk(pc)
    /\ \E e \in LlmErrors : Raise(e)
    /\ UNCHANGED << state, maxRepairAttempts, helperVars, written, synthLocals, events, aborted, locals, hookVars, retLine,
                    invoked, testsReturned, prompts >>

\* runner.ts 717-723
RepairCompleteEmit ==
    /\ pc = "repair_complete_emit"
    /\ EmitAll(<< Ev("stage_complete", "repair", 0, "driver", state, disk) >>, "loop_head")
    /\ UNCHANGED << state, maxRepairAttempts, helperVars, written, synthLocals, llmLog, disk, files, aborted, locals, hookVars, retLine >>

\* ---- Stage 6: HARDEN --------------------------------------------------------
\* runner.ts 725-729, 756, 776
AfterLoop ==
    /\ pc = "after_loop"
    /\ IF aborted THEN Return(725) /\ UNCHANGED << events, err >>
       ELSE IF state.currentStage = "harden"
       THEN /\ EmitAll(<< Ev("stage_start", "harden", 0, "driver", state, disk) >>, "harden_call")
            /\ UNCHANGED retLine
       ELSE Return(776) /\ UNCHANGED << events, err >>
    /\ Invoke
    /\ UNCHANGED << state, maxRepairAttempts, helperVars, written, synthLocals, disk, files, aborted, locals, hookVars,
                    testsReturned, budgetRaised, prompts >>

\* completedAt stamped but the stage left at harden
hardenDone_m(s) == [s EXCEPT !.completedAt = TRUE]

\* runner.ts 745-746
hardenDone(s) == [s EXCEPT !.currentStage = "done", !.completedAt = TRUE]

\* runner.ts 731-747: the HARDEN invocation returns
HardenReturns ==
    /\ pc = "harden_call" /\ ~toolOpen
    /\ files' \in toolFiles(pc)
    /\ \E d \in toolDisk(pc) : SaveThenFrom(hardenDone(state), "harden_complete_emit", d)
    /\ UNCHANGED << maxRepairAttempts, helperVars, written, synthLocals, llmLog, events, aborted, locals, hookVars, retLine >>

\* runner.ts 731: the HARDEN invocation throws
HardenThrows ==
    /\ pc = "harden_call" /\ ~toolOpen
    /\ files' \in toolFiles(pc)
    /\ disk' \in toolDisk(pc)
    /\ \E e \in LlmErrors : Raise(e)
    /\ UNCHANGED << state, maxRepairAttempts, helperVars, written, synthLocals, events, aborted, locals, hookVars, retLine,
                    invoked, testsReturned, prompts >>

\* the record count never read from the last test
lastRecordCount_m(s) == 0

\* runner.ts 750, 754: lastTest?.recordCount ?? 0
lastRecordCount(s) ==
    IF s.testResults = << >> THEN 0 ELSE s.testResults[Len(s.testResults)].recordCount

\* pipeline_complete left out
completionEvents_m(s, d) == << Ev("stage_complete", "harden", 0, "driver", s, d) >>

\* runner.ts 748-755: the events that close a successful run
completionEvents(s, d) ==
    << Ev("stage_complete", "harden", 0, "driver", s, d),
       Ev("pipeline_complete", "done", lastRecordCount(s), "driver", s, d) >>

\* runner.ts 748-756, 776
HardenCompleteEmit ==
    /\ pc = "harden_complete_emit"
    /\ EmitAll(completionEvents(state, disk), "returned")
    /\ retLine' = IF pc' = "returned" THEN 776 ELSE retLine
    /\ UNCHANGED << state, maxRepairAttempts, helperVars, written, synthLocals, llmLog, disk, files, aborted, locals, hookVars >>

\* ---- the catch block --------------------------------------------------------
\* runner.ts 759, 764, 770: the text stored in state.error
errorText(e, stage) ==
    CASE e = "budget_exceeded" -> "Budget exceeded in stage " \o stage
      [] e = "output_parse_error" -> "Structured output parse failed in stage " \o stage
      [] e \in {"generic_empty", "observer_error_empty"} -> ""
      [] OTHER -> "error message"

\* runner.ts 757-772; an observer that throws here escapes runPipeline
Catch ==
    /\ pc = "catch"
    /\ IF err \in {"budget_exceeded", "output_parse_error"}
       THEN /\ events' = Append(events, Ev("stage_error", state.currentStage, 0, "driver", state, disk))
            /\ \/ /\ state' = [state EXCEPT !.currentStage = "failed",
                                            !.error = errorText(err, state.currentStage)]
                  /\ pc' = "catch_save"
                  /\ err' = "none"
               \/ /\ pc' = "thrown"
                  /\ err' \in ObserverErrors
                  /\ UNCHANGED state
       ELSE /\ state' = [state EXCEPT !.currentStage = "failed",
                                      !.error = errorText(err, state.currentStage)]
            /\ events' = Append(events, Ev("pipeline_failed", state'.currentStage, 0,
                                           "driver", state', disk))
            /\ \/ pc' = "catch_save" /\ err' = "none"
               \/ pc' = "thrown" /\ err' \in ObserverErrors
    /\ UNCHANGED << maxRepairAttempts, helperVars, written, synthLocals, llmLog, disk, files, aborted, locals, hookVars, retLine >>

\* runner.ts 773, 776; a failing write here escapes runPipeline
CatchSave ==
    /\ pc = "catch_save"
    /\ \/ /\ disk' = saveState(state)
          /\ Return(776)
          /\ UNCHANGED err
       \/ /\ pc' = "thrown"
          /\ err' \in FsErrors
          /\ UNCHANGED << disk, retLine >>
    /\ UNCHANGED << state, maxRepairAttempts, helperVars, written, synthLocals, llmLog, files, events, aborted, locals, hookVars >>

Next ==
    \/ Setup
    \/ HookToolStart \/ HookToolEnd \/ HookStop
    \/ Abort
    \/ ReconStart \/ ExploreReturns \/ ExploreThrows \/ ExploreBackoff
    \/ ExploreFailed \/ ExploreFailedEmit \/ NoFindings \/ NoFindingsEmit
    \/ SynthReturns \/ SynthThrows \/ SynthBackoff \/ SynthFailed \/ SynthFailedEmit
    \/ ReconComplete \/ ReconCompleteEmit
    \/ SchemaStart \/ SchemaCall1Returns \/ SchemaCall2Returns \/ SchemaThrows
    \/ SchemaVerify \/ SchemaMissingEmit \/ SchemaCompleteEmit
    \/ CodegenStart \/ CodegenCall1Returns \/ CodegenCall2Returns \/ CodegenThrows
    \/ CodegenVerify \/ CodegenMissingEmit \/ CodegenCompleteEmit
    \/ LoopHead \/ TestReturns \/ TestThrows \/ TestCompleteEmit \/ TestPassed
    \/ RepairExhausted \/ RepairExhaustedEmit \/ RepairStart
    \/ RepairReturns \/ RepairThrows \/ RepairCompleteEmit
    \/ AfterLoop \/ HardenReturns \/ HardenThrows \/ HardenCompleteEmit
    \/ Catch \/ CatchSave

Spec == Init /\ [][Next]_vars

\* Every step but the caller's abort: a step of the driver, of an LLM
\* invocation (a hook firing, its return or its throw), of a backoff timer or
\* of a filesystem operation.
Progress ==
    \/ Setup
    \/ HookToolStart \/ HookToolEnd \/ HookStop
    \/ ReconStart \/ ExploreReturns \/ ExploreThrows \/ ExploreBackoff
    \/ ExploreFailed \/ ExploreFailedEmit \/ NoFindings \/ NoFindingsEmit
    \/ SynthReturns \/ SynthThrows \/ SynthBackoff \/ SynthFailed \/ SynthFailedEmit
    \/ ReconComplete \/ ReconCompleteEmit
    \/ SchemaStart \/ SchemaCall1Returns \/ SchemaCall2Returns \/ SchemaThrows
    \/ SchemaVerify \/ SchemaMissingEmit \/ SchemaCompleteEmit
    \/ CodegenStart \/ CodegenCall1Returns \/ CodegenCall2Returns \/ CodegenThrows
    \/ CodegenVerify \/ CodegenMissingEmit \/ CodegenCompleteEmit
    \/ LoopHead \/ TestReturns \/ TestThrows \/ TestCompleteEmit \/ TestPassed
    \/ RepairExhausted \/ RepairExhaustedEmit \/ RepairStart
    \/ RepairReturns \/ RepairThrows \/ RepairCompleteEmit
    \/ AfterLoop \/ HardenReturns \/ HardenThrows \/ HardenCompleteEmit
    \/ Catch \/ CatchSave

\* Every LLM invocation, timer and filesystem operation eventually returns or
\* throws, and the event loop then resumes the driver.
FairSpec == Spec /\ WF_vars(Progress)

\* ---- properties ---------------------------------------------------------------
Returned == pc = "returned"

Terminal == {"stage_complete", "stage_error", "pipeline_failed", "pipeline_complete"}

\* the returns taken at `if (signal?.aborted) return state;`
AbortReturnLines == {550, 590, 630, 635, 725}

\* C1 (as stated): the state runPipeline returns has currentStage done or failed.
C1_ReturnsDoneOrFailed ==
    Returned => state.currentStage \in {"done", "failed"}

\* C1 (amended): the state returned has currentStage done or failed unless
\* runPipeline returned at one of its abort checks; then currentStage is the
\* stage that would have run next (schema, codegen, test or harden).
C1_ReturnsDoneFailedOrNextStage ==
    Returned =>
        CASE retLine = 550 -> state.currentStage = "schema"
          [] retLine = 590 -> state.currentStage = "codegen"
          [] retLine \in {630, 635} -> state.currentStage = "test"
          [] retLine = 725 -> state.currentStage = "harden"
          [] OTHER -> state.currentStage \in {"done", "failed"}

C1_Witness ==
    Returned /\ retLine = 635 /\ state.repairAttempts > 0 /\ state.currentStage = "test"

\* C2: runPipeline never throws across its public boundary.
C2_NeverThrows ==
    pc # "thrown"

\* C3: a returned state with currentStage = failed comes with exactly one
\* pipeline_failed event and a non-empty state.error.
C3_FailedHasOnePipelineFailed ==
    (Returned /\ state.currentStage = "failed") =>
        /\ CountType(events, "pipeline_failed") = 1
        /\ state.error \notin {Unset, ""}

\* C4: a returned state with currentStage = done comes with exactly one
\* pipeline_complete event.
C4_DoneHasOnePipelineComplete ==
    (Returned /\ state.currentStage = "done") =>
        CountType(events, "pipeline_complete") = 1

C4_Witness ==
    Returned /\ state.currentStage = "done" /\ state.repairAttempts > 0

\* C5: when runPipeline returns currentStage = done, scraperDir/index.ts exists.
C5_DoneHasIndexTs ==
    (Returned /\ state.currentStage = "done") => "index.ts" \in files

\* C6: currentStage = done implies testResults is non-empty and its last
\* element has success = true, in every reachable state.
C6_DoneHasPassingLastTest ==
    state.currentStage = "done" =>
        /\ state.testResults # << >>
        /\ state.testResults[Len(state.testResults)].success

C6_Witness ==
    /\ state.currentStage = "done"
    /\ Len(state.testResults) > 1
    /\ ~state.testResults[1].success

\* C7: state.repairAttempts <= state.maxRepairAttempts in every reachable state.
C7_RepairAttemptsBounded ==
    state.repairAttempts <= state.maxRepairAttempts

C7_Witness ==
    /\ pc = "repair_exhausted"
    /\ state.repairAttempts > 0
    /\ state.repairAttempts = state.maxRepairAttempts

\* C8: when runPipeline returns, the number of stage_start events equals the
\* number of stage_complete events plus the number of stage_error events.
C8_StartsMatchTerminals ==
    Returned =>
        CountType(events, "stage_start") =
            CountType(events, "stage_complete") + CountType(events, "stage_error")

\* C9: when runPipeline returns, state.json holds the serialization of the
\* returned state, field by field, on every return path.
C9_DiskMatchesReturnedState ==
    Returned =>
        /\ disk.kind = "json"
        /\ disk.content.currentStage = state.currentStage
        /\ disk.content.error = state.error
        /\ disk.content.testResults = state.testResults
        /\ disk.content.repairAttempts = state.repairAttempts
        /\ disk.content.reconReport = state.reconReport
        /\ disk.content.schemaPath = state.schemaPath
        /\ disk.content.completedAt = state.completedAt

C9_Witness ==
    /\ Returned /\ retLine = 725 /\ aborted
    /\ Len(state.testResults) > 0
    /\ disk.content.testResults = state.testResults

\* C10: every terminal event the driver emits (stage_complete, stage_error,
\* pipeline_failed, pipeline_complete) is emitted after state.json was written
\* with the transition out of the stage: state.json matches the state at that
\* moment and the state has left the stage the event names.
C10_PersistedBeforeTerminalEvent ==
    \A i \in DOMAIN events :
        (events[i].by = "driver" /\ events[i].type \in Terminal) =>
            /\ events[i].synced
            /\ events[i].type \in {"stage_complete", "stage_error"} =>
                   events[i].cur # events[i].stage

\* ---- event order -----------------------------------------------------------------
ToolEvents == {"stage_tool_start", "stage_tool_end"}

\* the position of the first stage_start after position i, Len(events) + 1 if none
NextStart(i) ==
    IF \E j \in (i + 1)..Len(events) : events[j].type = "stage_start"
    THEN CHOOSE j \in (i + 1)..Len(events) :
            /\ events[j].type = "stage_start"
            /\ \A k \in (i + 1)..(j - 1) : events[k].type # "stage_start"
    ELSE Len(events) + 1

\* the events of the stage occurrence opened by the stage_start at position i
\* that name its stage
Occurrence(i) ==
    {j \in (i + 1)..(NextStart(i) - 1) : events[j].stage = events[i].stage}

\* C11: for each stage occurrence the events are stage_start, then tool events,
\* then exactly one of stage_complete and stage_error, and no tool event of
\* the stage after that one.
C11_StageEventOrder ==
    \A i \in DOMAIN events :
        (events[i].type = "stage_start" /\ (Returned \/ NextStart(i) <= Len(events))) =>
            LET closing == {j \in Occurrence(i) :
                               events[j].type \in {"stage_complete", "stage_error"}}
            IN  /\ Cardinality(closing) = 1
                /\ \A j \in Occurrence(i) :
                       events[j].type \in ToolEvents => \A t \in closing : j < t

\* C12: the length of testResults equals the number of TEST invocations that
\* have returned, with or without a validated report.
C12_OneEntryPerTestInvocation ==
    Len(state.testResults) = testsReturned

\* ---- scenarios ---------------------------------------------------------------------
\* runPipeline returned, not at an abort check and not through the catch block
NominalReturn ==
    /\ Returned
    /\ retLine \notin AbortReturnLines
    /\ ~(retLine = 776 /\ state.currentStage = "failed")

\* at least one TEST returned, each with a report, every report failing
AllTestsFailed ==
    /\ testsReturned > 0
    /\ Len(state.testResults) = testsReturned
    /\ \A i \in DOMAIN state.testResults : ~state.testResults[i].success

OfType(t) == SelectSeq(events, LAMBDA e : e.type = t)

StageLevel ==
    LET evs == SelectSeq(events, LAMBDA e : e.type \notin ToolEvents)
    IN  [i \in DOMAIN evs |-> << evs[i].type, evs[i].stage >>]

\* every invocation succeeded and the first TEST passed: the run is done after
\* one TEST, and no onStop hook reported a stop
HappyRun ==
    /\ Returned /\ state.currentStage = "done"
    /\ testsReturned = 1
    /\ \A i \in DOMAIN events : events[i].type # "stage_error"

ExploreCalls == IF "explore" \in invoked THEN attempt ELSE 0

\* C15: Explore is invoked at most three times.  When all three attempts fail
\* with transient errors the run ends failed with pipeline_failed for stage
\* recon, and neither Synthesize nor SCHEMA nor any later stage is invoked.
\* When the third attempt succeeds after two transient failures and what
\* follows passes (no abort, no exception, a passing last test), the run is done.
C15_ExploreRetryBoundary ==
    /\ ExploreCalls <= maxExploreAttempts
    /\ (Returned /\ retLine = 421 /\ err = "transient") =>
            /\ ExploreCalls = maxExploreAttempts
            /\ state.currentStage = "failed"
            /\ events[Len(events)].type = "pipeline_failed"
            /\ events[Len(events)].stage = "recon"
            /\ invoked = {"explore"}
    /\ ( /\ NominalReturn /\ ExploreCalls = maxExploreAttempts
         /\ state.testResults # << >>
         /\ state.testResults[Len(state.testResults)].success ) =>
            state.currentStage = "done"

C15_Witness ==
    /\ Returned /\ state.currentStage = "done"
    /\ ExploreCalls = maxExploreAttempts

\* ---- errors ------------------------------------------------------------------------
\* runner.ts 759: the texts that hold spentUsd and budgetUsd to two decimals
BudgetTexts == {errorText("budget_exceeded", s) : s \in PipelineStage}

\* C16: once an invocation of any stage or phase has raised budget_exceeded,
\* the run ends failed and state.error holds spentUsd and budgetUsd formatted
\* to two decimals.
C16_BudgetErrorReportsFigures ==
    (Returned /\ budgetRaised) =>
        /\ state.currentStage = "failed"
        /\ state.error \in BudgetTexts

\* C17: an exception of the observer callback never reaches the control flow
\* of the driver: no error in flight to the catch block, and none that escapes
\* runPipeline, is an observer error.
C17_ObserverErrorsIgnored ==
    err \notin ObserverErrors

\* C18: between two consecutive stages the abort token is checked: no
\* stage_start of a stage after recon is emitted while the token is aborted.
C18_AbortCheckedAtEveryBoundary ==
    [][aborted =>
          \A i \in (Len(events) + 1)..Len(events') :
              ~(events'[i].type = "stage_start" /\ events'[i].stage # "recon")]_vars

\* ---- file-presence retry -------------------------------------------------------------
ArtifactsPresent(expected) == \A i \in DOMAIN expected : expected[i] \in files

\* the prompts of a runStageWithRetry call, seen from the three positions of the call
WrapperContract(stage, expected, call1, call2, verify) ==
    /\ pc = call1 => prompts = << taskPrompt(stage) >>
    /\ pc = call2 =>
          /\ ~ArtifactsPresent(expected)
          /\ Len(prompts) = 2
          /\ prompts[1] = taskPrompt(stage)
          /\ prompts[2].task = stage
          /\ \E i \in DOMAIN expected :
                prompts[2].missing = expected[i] /\ expected[i] \notin files
          /\ prompts[2].hint = retryHint(stage)
    /\ pc = verify =>
          /\ Len(prompts) \in {1, 2}
          /\ Len(prompts) = 1 => ArtifactsPresent(expected)

\* C19: runStageWithRetry invokes the LLM once when every expected file exists
\* after the first invocation and twice otherwise; the second prompt is the
\* task prompt followed by a retry context that names a missing path and holds
\* the caller's hint; there is no third invocation.
C19_RetryWrapper ==
    /\ WrapperContract("schema", SchemaFiles, "schema_call1", "schema_call2", "schema_verify")
    /\ WrapperContract("codegen", CodegenFiles, "codegen_call1", "codegen_call2",
                       "codegen_verify")
    /\ Len(prompts) <= 2

C19_Witness ==
    /\ pc = "codegen_verify"
    /\ Len(prompts) = 2
    /\ prompts[2].missing = "index.ts"
    /\ ArtifactsPresent(CodegenFiles)

\* runner.ts 579, 620: the error recorded when the artifact is still missing
MissingTexts(stage, expected) ==
    {stage \o " stage did not produce " \o expected[i] : i \in DOMAIN expected}

\* the stage and everything after it, for what must not happen once it failed
MissingArtifactContract(stage, expected, completeEmit, later) ==
    /\ pc = completeEmit => ArtifactsPresent(expected)
    /\ state.error \in MissingTexts(stage, expected) =>
          /\ state.currentStage = "failed"
          /\ ~ArtifactsPresent(expected)
          /\ \A i \in DOMAIN events :
                /\ ~(events[i].type = "stage_complete" /\ events[i].stage = stage)
                /\ ~(events[i].type = "stage_start" /\ events[i].stage \in later)
          /\ invoked \cap later = {}
          /\ Returned =>
                /\ events[Len(events)].type = "pipeline_failed"
                /\ events[Len(events)].stage = stage

\* C20: when an expected artifact is still missing after the retry, the run
\* ends failed with pipeline_failed naming the stage; stage_complete is never
\* emitted for that stage and no later stage is started.
C20_MissingArtifactFails ==
    /\ MissingArtifactContract("schema", SchemaFiles, "schema_complete_emit",
                               {"codegen", "test", "repair", "harden"})
    /\ MissingArtifactContract("codegen", CodegenFiles, "codegen_complete_emit",
                               {"test", "repair", "harden"})

C20_Witness ==
    /\ Returned /\ retLine = 623
    /\ state.error = "codegen stage did not produce index.ts"
    /\ "scraper.ts" \in files

\* ---- helper functions, evaluated on their own ------------------------------------
\* no pipeline run is in progress
Idle ==
    /\ pc = "idle"
    /\ state = createInitialState
    /\ maxRepairAttempts = 0
    /\ disk = NoStateFile
    /\ files = {}
    /\ events = << >>
    /\ aborted = FALSE
    /\ err = "none"
    /\ attempt = 1
    /\ synthAttempt = 1
    /\ findingsLen = 0
    /\ testReport = NoReport
    /\ toolOpen = FALSE
    /\ hookFirings = 0
    /\ retLine = 0
    /\ invoked = {}
    /\ testsReturned = 0
    /\ budgetRaised = FALSE
    /\ prompts = << >>
    /\ synthResult = "none"
    /\ lastSynthError = ""
    /\ written = {}

runVars ==
    << pc, state, maxRepairAttempts, disk, files, events, aborted, err, locals, hookVars,
       retLine, llmLog, synthLocals, written >>

\* ---- makeBashGuardrail (runner.ts 191-228) ---------------------------------------
\* A command is the sequence of its whitespace-separated tokens.  A token that
\* is a path is the sequence of its characters; any other token is kept whole.
word(w) == << w >>

pathTmp == << "/", "t", "m", "p" >>

pathDevNull == << "/", "d", "e", "v", "/", "n", "u", "l", "l" >>

\* String.prototype.startsWith
startsWith(p, d) == Len(p) >= Len(d) /\ SubSeq(p, 1, Len(d)) = d

\* runner.ts 192-198: one of BLOCKED_PATTERNS matches the command
BLOCKED_PATTERNS(command) ==
    \E i \in 1..(Len(command) - 2) :
        \/ /\ command[i] = word("rm") /\ command[i + 1] = word("-rf")
           /\ command[i + 2] \in {<< "/" >>, word("~"), word("$HOME")}
        \/ /\ command[i] = word("git") /\ command[i + 1] = word("push")
           /\ command[i + 2] \in {word("--force"), word("-f")}

\* runner.ts 214: the matches of /(?:^|\s)(\/[^\s]+)/g, trimmed
absPathMatch(command) ==
    {command[i] : i \in {j \in DOMAIN command : command[j][1] = "/" /\ Len(command[j]) >= 2}}

\* runner.ts 202-225: execute, as its tripwireTriggered
execute(toolName, command, workDir) ==
    IF toolName # "bash" THEN FALSE
    ELSE IF BLOCKED_PATTERNS(command) THEN TRUE
    ELSE \E path \in absPathMatch(command) :
            /\ path # << "/" >>
            /\ ~startsWith(path, workDir)
            /\ ~startsWith(path, pathTmp)
            /\ ~startsWith(path, pathDevNull)

\* the workspace of the run, /w/p
GuardWorkDir == << "/", "w", "/", "p" >>

GuardTokens ==
    { word("rm"), word("-rf"), word("~"), word("$HOME"), word("git"), word("push"),
      word("--force"), word("-f"), word("cat"),
      << "/" >>, pathTmp, pathTmp \o << "/", "f" >>, pathTmp \o << "f" >>,
      pathDevNull, pathDevNull \o << "x" >>, << "/", "e" >>,
      GuardWorkDir, GuardWorkDir \o << "/", "s" >>, GuardWorkDir \o << "x" >> }

GuardInputs ==
    [ toolName : {"bash", "write_file"},
      command  : UNION {[1..n -> GuardTokens] : n \in 0..MaxTokens},
      workDir  : {GuardWorkDir} ]

ApplyGuardrail ==
    /\ fn = "makeBashGuardrail" /\ ~res.done
    /\ res' = Done(execute(arg.toolName, arg.command, arg.workDir))
    /\ UNCHANGED << fn, arg, runVars >>

\* ---- slugify (part_012 294-300) -----------------------------------------------------
\* text is a sequence of characters
SlugChars == {"a", "B", "-", "!"}

\* String.prototype.toLowerCase, per character
lowerChar(c) == IF c = "B" THEN "b" ELSE c

toLowerCase(text) == [i \in DOMAIN text |-> lowerChar(text[i])]

\* [a-z0-9]
alnum(c) == c \in {"a", "b"}

RECURSIVE dropOthers(_)
\* text without its leading run of characters outside [a-z0-9]
dropOthers(text) ==
    IF text = << >> \/ alnum(Head(text)) THEN text ELSE dropOthers(Tail(text))

RECURSIVE collapse(_)
\* replace(/[^a-z0-9]+/g, "-")
collapse(text) ==
    IF text = << >> THEN << >>
    ELSE IF alnum(Head(text)) THEN << Head(text) >> \o collapse(Tail(text))
    ELSE << "-" >> \o collapse(dropOthers(text))

\* replace(/^-+|-+$/g, ""), on a text whose dashes are single
trimDashes(text) ==
    LET from == IF text # << >> /\ Head(text) = "-" THEN 2 ELSE 1
        to   == IF text # << >> /\ text[Len(text)] = "-" THEN Len(text) - 1 ELSE Len(text)
    IN  SubSeq(text, from, to)

\* slice(0, n)
slice(text, n) == SubSeq(text, 1, IF Len(text) < n THEN Len(text) ELSE n)

slugify(text) == slice(trimDashes(collapse(toLowerCase(text))), SlugMaxLen)

\* texts around the truncation length: a run of "a" followed by a short suffix
SlugInputs ==
    { [i \in 1..k |-> "a"] \o t :
        k \in {0, SlugMaxLen - 2, SlugMaxLen - 1, SlugMaxLen},
        t \in UNION {[1..n -> SlugChars] : n \in 0..MaxSuffixLen} }

\* runner.ts 349: projectName = slugify(userIntent)
ApplySlugify ==
    /\ fn = "slugify" /\ ~res.done
    /\ res' = Done(slugify(arg))
    /\ UNCHANGED << fn, arg, runVars >>

\* ---- isTransientApiError, on its own ----------------------------------------------------
\* model-layer errors with any status, generic errors without one
ErrorValues ==
    { [class |-> c, status |-> st, marks |-> m] :
        c \in {"ModelError", "Error"}, st \in {0, 429, 500},
        m \in {ms \in SUBSET Markers : Cardinality(ms) <= MaxMarkers} }

ClassifierInputs == {e \in ErrorValues : e.class = "Error" => e.status = 0}

ApplyClassifier ==
    /\ fn = "isTransientApiError" /\ ~res.done
    /\ res' = Done(isTransientApiError(arg))
    /\ UNCHANGED << fn, arg, runVars >>

\* ---- reconOutputToReport (runner.ts 266-304) ------------------------------------------
Null == "<null>"

\* runner.ts 266-268
n2u(val) == IF val = Null THEN Unset ELSE val

\* a record of the internal report: one key with its value
Obj(k, v) == [key |-> k, val |-> v]

\* A sampleData string of the wire form: its characters, whether JSON.parse
\* accepts it, and the record it then yields.
JsonText(t, o) == [text |-> t, json |-> TRUE, value |-> o]

PlainText(t) == [text |-> t, json |-> FALSE, value |-> Obj("", "")]

SampleStrings ==
    { JsonText("{\"raw\":\"x\"}", Obj("raw", "x")),
      JsonText("{ \"raw\": \"x\" }", Obj("raw", "x")),
      JsonText("{\"id\":\"x\"}", Obj("id", "x")),
      PlainText("x"),
      PlainText("y") }

\* runner.ts 299-301: try { return JSON.parse(s); } catch { return { raw: s }; }
parseSample(s) == IF s.json THEN s.value ELSE Obj("raw", s.text)

\* the nullable fields of the wire form kept here: one string field
\* (apiEndpoints[].contentType) and sampleData
WireReports ==
    [ contentType : {Null, "text/html"},
      sampleData  : {<< Null >>} \cup
                    {<< "list", l >> : l \in UNION {[1..n -> SampleStrings] : n \in 0..MaxSamples}} ]

reconOutputToReport(output) ==
    [ contentType |-> n2u(output.contentType),
      sampleData  |-> IF output.sampleData[1] = Null THEN << Unset >>
                      ELSE << "list", [i \in DOMAIN output.sampleData[2] |->
                                         parseSample(output.sampleData[2][i])] >> ]

ApplyConvert ==
    /\ fn = "reconOutputToReport" /\ ~res.done
    /\ res' = Done(reconOutputToReport(arg))
    /\ UNCHANGED << fn, arg, runVars >>

\* ---- option defaults (runner.ts 340-347, 357-358) --------------------------------------
\* options.maxRepairAttempts: given with a value, or left out
OptionValues ==
    {[given |-> FALSE, value |-> 0]} \cup {[given |-> TRUE, value |-> n] : n \in 0..MaxRepairBound}

\* runner.ts 343: `maxRepairAttempts = 20` in the destructuring
destructure(opt) == IF opt.given THEN opt.value ELSE DefaultMaxRepairAttempts

\* runner.ts 357-358: the state the run starts from
ApplyOptions ==
    /\ fn = "options" /\ ~res.done
    /\ res' = Done([createInitialState EXCEPT !.maxRepairAttempts = destructure(arg)])
    /\ UNCHANGED << fn, arg, runVars >>

\* ---- buildRepairPrompt (part_003 354-436) ------------------------------------------------
\* An error text is the set of the patterns of lines 367-370 that occur in it,
\* letter case ignored.
RepairMarks ==
    {"timeout", "cannot find module", "selector", "locator", "navigation failed", "goto"}

ErrorTexts == {t \in SUBSET RepairMarks : Cardinality(t) <= MaxMarkers}

\* an earlier report of the run, whose first error is a missing module
OlderReport == [schemaErrors |-> << {"cannot find module"} >>, stderr |-> {"goto"}]

\* The test results of a state: whether any TEST left a report, the reports
\* before the last one, and the schemaErrors messages and the stderr of the
\* last one.
RepairInputs ==
    [ tested       : BOOLEAN,
      older        : {<< >>, << OlderReport >>},
      schemaErrors : UNION {[1..n -> ErrorTexts] : n \in 0..MaxErrors},
      stderr       : ErrorTexts ]

\* state.testResults
testResults(in) ==
    IF ~in.tested THEN << >>
    ELSE in.older \o << [schemaErrors |-> in.schemaErrors, stderr |-> in.stderr] >>

\* part_003 366: lastTest?.schemaErrors?.[0]?.message ?? lastTest?.stderr ?? ""
lastError(results) ==
    IF results = << >> THEN {}
    ELSE LET lastTest == results[Len(results)] IN
         IF lastTest.schemaErrors # << >> THEN lastTest.schemaErrors[1]
         ELSE lastTest.stderr

\* part_003 367-370
isTimeoutError(e) == "timeout" \in e

isModuleError(e) == "cannot find module" \in e

isSelectorError(e) == isTimeoutError(e) \/ e \cap {"selector", "locator"} # {}

isNavigationError(e) == e \cap {"navigation failed", "goto"} # {}

\* selector errors tested ahead of navigation errors
diagnosisGuidance_m(e) ==
    IF isModuleError(e) THEN << "module_error" >>
    ELSE IF isSelectorError(e) THEN << "selector_error" >>
    ELSE IF isNavigationError(e) THEN << "navigation_error" >>
    ELSE << "general" >>

\* part_003 378-410: the diagnosis blocks put into the prompt, by their type
diagnosisGuidance(e) ==
    IF isModuleError(e) THEN << "module_error" >>
    ELSE IF isNavigationError(e) THEN << "navigation_error" >>
    ELSE IF isSelectorError(e) THEN << "selector_error" >>
    ELSE << "general" >>

\* part_003 412-435: the parts of the prompt that depend on the test results
buildRepairPrompt(results) ==
    [ test_history       |-> [i \in DOMAIN results |-> << "Run", i >>],
      latest_test_report |-> IF results = << >> THEN << >>
                             ELSE << results[Len(results)] >>,
      diagnosis          |-> diagnosisGuidance(lastError(results)) ]

ApplyRepairPrompt ==
    /\ fn = "buildRepairPrompt" /\ ~res.done
    /\ res' = Done(buildRepairPrompt(testResults(arg)))
    /\ UNCHANGED << fn, arg, runVars >>

\* ---- runStageWithRetry, by what its prompts spend (runner.ts 50-57, 114-129) ------------------
STAGE_BUDGETS ==
    [recon |-> 100, schema |-> 100, codegen |-> 100, test |-> 100, repair |-> 100,
     harden |-> 100]

\* what one prompt made with maxBudgetUsd = b can have spent when it returns:
\* nothing, half of its ceiling, or all of it
CallCosts(b) == {0, b \div 2, b}

\* A call of runStageWithRetry as SCHEMA and CODEGEN make it: the ceiling of
\* its config, what each prompt spends, and whether checkFiles finds a path
\* missing after the first prompt.
WrapperRuns ==
    { [maxBudgetUsd |-> b, cost1 |-> c1, cost2 |-> c2, missing |-> m] :
        b \in {STAGE_BUDGETS.schema, STAGE_BUDGETS.codegen},
        c1 \in CallCosts(STAGE_BUDGETS.schema), c2 \in CallCosts(STAGE_BUDGETS.codegen),
        m \in BOOLEAN }

\* runner.ts 121-128: one prompt, and a second one with the same config if a
\* path is missing
runStageWithRetry(run) ==
    IF ~run.missing THEN [prompts |-> 1, spentUsd |-> run.cost1]
    ELSE [prompts |-> 2, spentUsd |-> run.cost1 + run.cost2]

ApplyWrapper ==
    /\ fn = "runStageWithRetry" /\ ~res.done
    /\ res' = Done(runStageWithRetry(arg))
    /\ UNCHANGED << fn, arg, runVars >>

InitHelpers ==
    /\ Idle
    /\ res = Pending
    /\ \/ fn = "makeBashGuardrail" /\ arg \in GuardInputs
       \/ fn = "slugify" /\ arg \in SlugInputs
       \/ fn = "isTransientApiError" /\ arg \in ClassifierInputs
       \/ fn = "reconOutputToReport" /\ arg \in WireReports
       \/ fn = "options" /\ arg \in OptionValues
       \/ /\ fn = "buildRepairPrompt" /\ arg \in RepairInputs
          /\ arg.tested \/ (arg.older = << >> /\ arg.schemaErrors = << >> /\ arg.stderr = {})
       \/ fn = "runStageWithRetry" /\ arg \in WrapperRuns

NextHelpers ==
    \/ ApplyGuardrail \/ ApplySlugify \/ ApplyClassifier \/ ApplyConvert \/ ApplyOptions
    \/ ApplyRepairPrompt \/ ApplyWrapper

SpecHelpers == InitHelpers /\ [][NextHelpers]_vars

Returns(name) == fn = name /\ res.done

\* ---- claims about the helper functions ---------------------------------------------------
\* D or a path inside directory D
Under(path, dir) == path = dir \/ startsWith(path, dir \o << "/" >>)

\* C21: the guardrail trips iff the tool is bash and the command matches a
\* blocked pattern or names an absolute path that is not "/", not under
\* workDir, not under /tmp and not /dev/null.
C21_GuardrailTripsIffOutside ==
    Returns("makeBashGuardrail") =>
        ( res.value <=>
            /\ arg.toolName = "bash"
            /\ \/ BLOCKED_PATTERNS(arg.command)
               \/ \E i \in DOMAIN arg.command :
                    LET path == arg.command[i] IN
                    /\ path[1] = "/" /\ path # << "/" >>
                    /\ ~Under(path, arg.workDir)
                    /\ ~Under(path, pathTmp)
                    /\ path # pathDevNull )

\* C22: every invocation whose tool set holds bash is configured with the
\* bash guardrail of this run.
C22_BashAlwaysGuarded ==
    (pc \in InFlight /\ "bash" \in tools(pc)) => bashGuardrail \in toolInputGuardrails(pc)

C22_Witness ==
    pc = "codegen_call2" /\ "bash" \in tools(pc) /\ Len(prompts) = 2

\* C23: slugify(slugify(s)) = slugify(s), truncated slugs included.
C23_SlugifyIdempotent ==
    Returns("slugify") => slugify(res.value) = res.value

\* C24: the slug of every userIntent is non-empty, holds only characters of
\* [a-z0-9-], has no leading or trailing dash and is at most 50 long.
C24_SlugWellFormed ==
    Returns("slugify") =>
        /\ res.value # << >>
        /\ \A i \in DOMAIN res.value : alnum(res.value[i]) \/ res.value[i] = "-"
        /\ res.value[1] # "-"
        /\ res.value[Len(res.value)] # "-"
        /\ Len(res.value) <= SlugMaxLen

\* C25: without a maxRepairAttempts option the run starts with
\* state.maxRepairAttempts = 5.
C25_DefaultRepairCapIsFive ==
    (Returns("options") /\ ~arg.given) => res.value.maxRepairAttempts = 5

\* C26: the classifier returns transient iff the status is 429 or the message
\* holds at least one marker, whatever the type of the error.
C26_TransientIffStatusOrMarker ==
    Returns("isTransientApiError") =>
        (res.value <=> (arg.status = 429 \/ arg.marks # {}))

\* the wire report with null read as absent and every JSON string of
\* sampleData read as the record it encodes
normalise(w) ==
    [ contentType |-> n2u(w.contentType),
      sampleData  |-> IF w.sampleData[1] = Null THEN << Unset >>
                      ELSE << "list", [i \in DOMAIN w.sampleData[2] |->
                               IF w.sampleData[2][i].json
                               THEN [kind |-> "record", key |-> w.sampleData[2][i].value.key,
                                     val |-> w.sampleData[2][i].value.val]
                               ELSE [kind |-> "string", key |-> "",
                                     val |-> w.sampleData[2][i].text]] >> ]

\* C27: the wire-to-internal conversion loses no information: two wire
\* reports that convert to the same internal report are equal after
\* normalisation, sampleData entries that are not valid JSON included.
C27_ConversionLosesNothing ==
    Returns("reconOutputToReport") =>
        \A w \in WireReports :
            reconOutputToReport(w) = res.value => normalise(w) = normalise(arg)

\* ---- RECON retries ---------------------------------------------------------------------
SynthPositions == {"synth_call", "synth_backoff", "synth_failed", "synth_failed_emit"}

\* the values lastSynthError takes when an attempt is to be followed by another
RetryReasons ==
    {"Zod validation", "not valid JSON", "Empty output",
     "OutputParseError: " \o message("output_parse_error"),
     "Rate limited: " \o message("transient")}

C29_FindingsGate ==
    /\ (pc \in {"recon_nofindings", "recon_nofindings_emit"} \/ retLine = 453) =>
          findingsLen < MinFindingsLen /\ "synthesize" \notin invoked
    /\ (Returned /\ retLine = 453) =>
          /\ state.currentStage = "failed"
          /\ events[Len(events)].type = "pipeline_failed"
          /\ events[Len(events)].stage = "recon"
    /\ pc \in SynthPositions \cup {"recon_complete"} => findingsLen >= MinFindingsLen
    /\ findingsLen >= MinFindingsLen =>
          \/ "synthesize" \in invoked
          \/ pc \in {"catch", "catch_save", "thrown"}
          \/ Returned /\ retLine = 776

C29_Witness ==
    Returned /\ retLine = 453 /\ findingsLen = MinFindingsLen - 1

\* C30 (as stated): an error that is not transient is never retried, in
\* Explore and in Synthesize: no backoff follows it.
C30_NonTransientNeverRetried ==
    /\ pc = "explore_backoff" => isTransientApiError(errorValue(err))
    /\ pc = "synth_backoff" =>
          lastSynthError # "OutputParseError: " \o message("output_parse_error")

\* C30 (amended): in Explore no backoff and no further invocation follows an
\* error that is not transient; in Synthesize none follows an error that is
\* neither transient nor an output_parse_error; a run that such an error ended
\* returns failed.
C30_FatalErrorsNeverRetried ==
    /\ pc = "explore_backoff" => isTransientApiError(errorValue(err))
    /\ pc = "synth_backoff" => lastSynthError \in RetryReasons
    /\ (Returned /\ retLine = 421) => state.currentStage = "failed"
    /\ (Returned /\ retLine = 776 /\ "schema" \notin invoked) =>
          state.currentStage = "failed"

C30_Witness ==
    /\ Returned /\ retLine = 776 /\ budgetRaised
    /\ "synthesize" \in invoked /\ "schema" \notin invoked
    /\ state.currentStage = "failed"

\* ---- termination ---------------------------------------------------------------------
\* the stage_start events of a stage emitted so far
Starts(stage) ==
    Cardinality({i \in DOMAIN events :
                    events[i].type = "stage_start" /\ events[i].stage = stage})

\* C31 (termination): runPipeline eventually returns.
C31_EventuallyReturns ==
    <>Returned

\* C31 (the rest): the run ends, by a return or by an exception that escapes;
\* the TEST/REPAIR loop is left only with currentStage harden or failed unless
\* cancelled; at most 3 Explore, 3 Synthesize, 2 SCHEMA, 2 CODEGEN, N + 1 TEST,
\* N REPAIR and 1 HARDEN invocations are made.
C31_LoopExitsAndInvocationBounds ==
    /\ pc = "after_loop" => state.currentStage = "harden"
    /\ (Returned /\ retLine = 693) => state.currentStage = "failed"
    /\ ExploreCalls <= maxExploreAttempts
    /\ synthAttempt <= maxSynthAttempts
    /\ Len(prompts) <= 2
    /\ Starts("schema") <= 1 /\ Starts("codegen") <= 1
    /\ Starts("test") <= maxRepairAttempts + 1
    /\ Starts("repair") <= maxRepairAttempts
    /\ Starts("harden") <= 1

C31_Terminates ==
    <>(pc \in {"returned", "thrown"})

\* ---- persistence and stage bookkeeping ---------------------------------------------------
\* C32: whenever an LLM invocation begins, state.json exists and holds the
\* in-memory state (newest testResults entry and repairAttempts included).
C32_PersistedBeforeEveryInvocation ==
    pc \in InFlight => Synced(state, disk)

\* the stage an invocation runs in
StageOf(p) == IF p = "synth_call" THEN "recon" ELSE HookStage(p)

\* C34: while an invocation of stage S runs, state.currentStage = S; in
\* particular currentStage = repair throughout each REPAIR invocation.
C34_CurrentStageIsRunningStage ==
    pc \in InFlight => state.currentStage = StageOf(pc)

\* the stages of the stage_start events, in order
StartedStages ==
    LET st == OfType("stage_start") IN [i \in DOMAIN st |-> st[i].stage]

\* the stages that may be started right after a stage was started
FollowingStages(stage) ==
    CASE stage = "recon" -> {"schema"}
      [] stage = "schema" -> {"codegen"}
      [] stage = "codegen" -> {"test"}
      [] stage = "test" -> {"repair", "harden"}
      [] stage = "repair" -> {"test"}
      [] OTHER -> {}

\* the stage_start events follow the state machine, and harden starts only
\* right after a TEST that reported success
StartsFollowStateMachine ==
    /\ StartedStages # << >> => StartedStages[1] = "recon"
    /\ \A i \in 1..(Len(StartedStages) - 1) :
          StartedStages[i + 1] \in FollowingStages(StartedStages[i])
    /\ pc = "harden_call" => passed(testReport)

\* no event follows a pipeline_complete or a pipeline_failed
NothingAfterPipelineEnd ==
    \A i \in 1..(Len(events) - 1) :
        events[i].type \notin {"pipeline_complete", "pipeline_failed"}

\* C35: stage_start events follow the pipeline state machine (recon, schema,
\* codegen, then test and repair alternating from test, then harden at most
\* once and only right after a passing TEST), and no event of any kind is
\* emitted after pipeline_complete or pipeline_failed.
C35_StateMachineOrder ==
    StartsFollowStateMachine /\ NothingAfterPipelineEnd

\* the positions of the repair_attempt events, in order
RepairAttemptPositions ==
    {i \in DOMAIN events : events[i].type = "repair_attempt"}

C38_NoInvocationAfterAbort ==
    [][(aborted /\ pc' \in InFlight) => pc \in InFlight]_vars

\* C39: a stage_error or pipeline_failed event names the stage of the most
\* recent stage_start, never done or failed.
C39_FailureNamesRunningStage ==
    \A i \in DOMAIN events :
        events[i].type \in {"stage_error", "pipeline_failed"} =>
            /\ events[i].stage \notin {"done", "failed"}
            /\ \E j \in 1..(i - 1) :
                  /\ events[j].type = "stage_start"
                  /\ events[j].stage = events[i].stage
                  /\ \A k \in (j + 1)..(i - 1) : events[k].type # "stage_start"

\* ---- artifacts of a reused workspace ------------------------------------------------------
\* C40: stage_complete{schema} is emitted only if schema.ts was written by an
\* invocation of SCHEMA in this run, and stage_complete{codegen} only if
\* scraper.ts and index.ts were written by an invocation of CODEGEN in this
\* run, whatever the workspace held when the run began.
C40_CompleteOnlyIfWrittenInThisRun ==
    /\ pc = "schema_complete_emit" => "schema.ts" \in written
    /\ pc = "codegen_complete_emit" => {"scraper.ts", "index.ts"} \subseteq written

\* ---- repair prompt and budgets -----------------------------------------------------------
\* the error text the diagnosis is chosen from, as the claim states it
FirstErrorOfLastReport ==
    IF ~arg.tested THEN {}
    ELSE IF arg.schemaErrors # << >> THEN arg.schemaErrors[1]
    ELSE arg.stderr

C37_StageSpendWithinCeiling ==
    Returns("runStageWithRetry") => res.value.spentUsd <= arg.maxBudgetUsd
====
